--------------------------- MODULE Spec2Model ---------------------------
(***************************************************************************)
(* Model of src/src/safety_system.py: the SafetyMonitor object, its        *)
(* background monitoring loop, the four invariant checks, is_safe, the     *)
(* status query, the log, the emergency handler and the start/stop/home    *)
(* operations, with the vehicle interface as a nondeterministic            *)
(* environment.                                                            *)
(*                                                                         *)
(* Units.  Altitude and radius in metres, battery in percent, attitude in  *)
(* units of pi/12 radians (so math.degrees multiplies by 15), latitude and *)
(* longitude in units of 0.0005 degrees, distances in millimetres.         *)
(***************************************************************************)
EXTENDS Integers, Sequences, FiniteSets, TLC

\* ------------------------------------------------------------------ bounds
NumFg    == 2    \* foreground threads calling the monitor's methods
MaxLoops == 2    \* Thread objects of _monitor_loop existing at one time
MaxLog   == 2    \* entries the safety log may hold
MaxClock == 1    \* seconds the wall clock may advance

\* --------------------------------------------------- program constants
DefaultMaxAltitude    == 10
DefaultMinBattery     == 20
DefaultMaxTiltAngle   == 45
DefaultGeofenceRadius == 100
DegreesPerUnit        == 15      \* math.degrees of one attitude unit (pi/12)
SafeAltitudePercent   == 80      \* max_altitude * 0.8

Fg    == 1..NumFg
Loops == 1..MaxLoops

None    == <<>>                  \* Python's None for an optional number
Some(x) == <<x>>
NoThread == 0                    \* monitor_thread = None

VARIABLES
  vehicle,             \* TRUE iff a vehicle interface is attached (self.vehicle)
  max_altitude, min_battery, max_tilt_angle, geofence_enabled, geofence_radius,
  home_lat, home_lon,  \* None or Some(coordinate)
  monitoring, emergency_triggered,
  monitor_thread,      \* NoThread or the loop thread object last created
  safety_log,          \* sequence of entries
  tel,                 \* the vehicle's live telemetry
  mode,                \* the vehicle's flight mode
  clock,               \* datetime.now(), whole seconds
  file,                \* the lines of the file save_log writes
  pc, op, ret, cmds, exc, err, logged, report, pend,
                       \* foreground threads: position, operation, how the call
                       \* returned, commands issued by the call, exception caught
                       \* inside the call, error raised to the caller, entries
                       \* the call appended to the log, dictionary built by
                       \* get_safety_status, log entry formatted but not yet
                       \* appended
  lpc, lpend, tickFailed, flipped, tickLog
                       \* loop threads: position, pending entry, a check of
                       \* the current tick failed, monitoring went from true
                       \* to false while the thread was running, entries the
                       \* current tick appended to the log

vars == <<vehicle, max_altitude, min_battery, max_tilt_angle, geofence_enabled,
          geofence_radius, home_lat, home_lon, monitoring, emergency_triggered,
          monitor_thread, safety_log, tel, mode, clock, file, pc, op, ret, cmds,
          exc, err, logged, report, pend, lpc, lpend, tickFailed, flipped, tickLog>>

config   == <<vehicle, max_altitude, min_battery, max_tilt_angle, geofence_enabled,
              geofence_radius>>
home     == <<home_lat, home_lon>>
flags    == <<monitoring, emergency_triggered, monitor_thread>>
results  == <<op, ret, cmds, exc, err, logged, report>>
fgLocals == <<pc, op, ret, cmds, exc, err, logged, report, pend>>
loopVars == <<lpc, lpend, tickFailed, flipped, tickLog>>

\* ------------------------------------------------------------- telemetry
\* The readings the vehicle may give: at the threshold and beyond it for
\* each invariant; attitude as <<pitch, roll>>.
Altitudes == {10, 12}
Levels    == {15, 20}
Attitudes == {<<3, 0>>, <<4, 0>>, <<3, -4>>}
Lats      == {0, 2}
Lons      == {1}

Telemetry ==
  {[alt |-> a, level |-> b, pitch |-> r[1], roll |-> r[2], lat |-> la, lon |-> lo] :
     a \in Altitudes, b \in Levels, r \in Attitudes, la \in Lats, lo \in Lons}

Abs(x) == IF x < 0 THEN -x ELSE x

\* math.degrees on attitude units
degrees(x) == x * DegreesPerUnit

\* calculate_distance on the coordinate grid, in millimetres (floor), as the
\* haversine code of the source evaluates it in double precision
DistanceTable ==
       <<0,0,0,0>> :> 0 @@ <<0,0,0,1>> :> 55597 @@ <<0,0,1,0>> :> 55597
    @@ <<0,0,1,1>> :> 78626 @@ <<0,0,2,0>> :> 111194 @@ <<0,0,2,1>> :> 124319
    @@ <<0,1,0,0>> :> 55597 @@ <<0,1,0,1>> :> 0 @@ <<0,1,1,0>> :> 78626
    @@ <<0,1,1,1>> :> 55597 @@ <<0,1,2,0>> :> 124319 @@ <<0,1,2,1>> :> 111194
    @@ <<1,0,0,0>> :> 55597 @@ <<1,0,0,1>> :> 78626 @@ <<1,0,1,0>> :> 0
    @@ <<1,0,1,1>> :> 55597 @@ <<1,0,2,0>> :> 55597 @@ <<1,0,2,1>> :> 78626
    @@ <<1,1,0,0>> :> 78626 @@ <<1,1,0,1>> :> 55597 @@ <<1,1,1,0>> :> 55597
    @@ <<1,1,1,1>> :> 0 @@ <<1,1,2,0>> :> 78626 @@ <<1,1,2,1>> :> 55597
    @@ <<2,0,0,0>> :> 111194 @@ <<2,0,0,1>> :> 124319 @@ <<2,0,1,0>> :> 55597
    @@ <<2,0,1,1>> :> 78626 @@ <<2,0,2,0>> :> 0 @@ <<2,0,2,1>> :> 55597
    @@ <<2,1,0,0>> :> 124319 @@ <<2,1,0,1>> :> 111194 @@ <<2,1,1,0>> :> 78626
    @@ <<2,1,1,1>> :> 55597 @@ <<2,1,2,0>> :> 55597 @@ <<2,1,2,1>> :> 0

\* (mutant) the first latitude is taken as 0
calculate_distance_FromEquator(lat1, lon1, lat2, lon2) ==
  DistanceTable[<<0, lon1, lat2, lon2>>]

calculate_distance(lat1, lon1, lat2, lon2) == DistanceTable[<<lat1, lon1, lat2, lon2>>]

\* ---------------------------------------------------------------- checks
\* (mutant) an altitude at the limit fails too
AltitudeFails_AtLimit(t) == t.alt >= max_altitude

\* The comparison each check makes on the telemetry it reads.
AltitudeFails(t) == t.alt > max_altitude
BatteryFails(t)  == t.level < min_battery
TiltFails(t)     == \/ Abs(degrees(t.pitch)) > max_tilt_angle
                    \/ Abs(degrees(t.roll)) > max_tilt_angle
HomeUnset        == home_lat = None \/ home_lon = None
GeofenceChecked  == geofence_enabled /\ ~HomeUnset
\* (mutant) the geofence_enabled switch is not looked at
GeofenceFails_AlwaysOn(t) ==
  /\ ~HomeUnset
  /\ calculate_distance(home_lat[1], home_lon[1], t.lat, t.lon)
       > geofence_radius * 1000

GeofenceFails(t) == /\ GeofenceChecked
                    /\ calculate_distance(home_lat[1], home_lon[1], t.lat, t.lon)
                         > geofence_radius * 1000

\* "{x:.1f}" of a distance: tenths of a metre, rounded
Fmt1(mm) == (mm + 50) \div 100

\* log_warning's entry: the timestamp and the numbers the message embeds
Entry(inv, nums) == [ts |-> clock, inv |-> inv, nums |-> nums]

AltitudeEntry(t) == Entry("Altitude", <<t.alt * 10, max_altitude>>)
BatteryEntry(t)  == Entry("Battery", <<t.level, min_battery>>)
TiltEntry(t)     == Entry("Tilt", <<degrees(t.pitch) * 10, degrees(t.roll) * 10>>)
GeofenceEntry(t) ==
  Entry("Geofence",
        <<Fmt1(calculate_distance(home_lat[1], home_lon[1], t.lat, t.lon)),
          geofence_radius>>)

Fails(inv, t) == CASE inv = "Altitude" -> AltitudeFails(t)
                   [] inv = "Battery"  -> BatteryFails(t)
                   [] inv = "Tilt"     -> TiltFails(t)
                   [] inv = "Geofence" -> GeofenceFails(t)

EntryOf(inv, t) == CASE inv = "Altitude" -> AltitudeEntry(t)
                     [] inv = "Battery"  -> BatteryEntry(t)
                     [] inv = "Tilt"     -> TiltEntry(t)
                     [] inv = "Geofence" -> GeofenceEntry(t)

\* ------------------------------------------------------- thread positions
Idle == "idle"
Done == "done"     \* the call has returned; its outcome is with the caller

\* the first step of a foreground call: it goes on at `where`, or has
\* returned already (where = Done) along the path `how`
Begin(t, name, where, how) ==
  /\ pc'   = [pc EXCEPT ![t] = where]
  /\ op'   = [op EXCEPT ![t] = name]
  /\ ret'  = [ret EXCEPT ![t] = how]
  /\ cmds' = [cmds EXCEPT ![t] = <<>>]
  /\ exc'  = [exc EXCEPT ![t] = "none"]
  /\ err'  = [err EXCEPT ![t] = "none"]
  /\ logged' = [logged EXCEPT ![t] = <<>>]
  /\ report' = [report EXCEPT ![t] = <<>>]

Goto(t, where) == pc' = [pc EXCEPT ![t] = where]

\* the call returns along the named path
ReturnAs(t, how) ==
  /\ pc'  = [pc EXCEPT ![t] = Done]
  /\ ret' = [ret EXCEPT ![t] = how]

\* the caller goes on; the thread may make its next call
Return(t) ==
  /\ pc[t] = Done
  /\ pc'   = [pc EXCEPT ![t] = Idle]
  /\ op'   = [op EXCEPT ![t] = "none"]
  /\ ret'  = [ret EXCEPT ![t] = "none"]
  /\ cmds' = [cmds EXCEPT ![t] = <<>>]
  /\ exc'  = [exc EXCEPT ![t] = "none"]
  /\ err'  = [err EXCEPT ![t] = "none"]
  /\ logged' = [logged EXCEPT ![t] = <<>>]
  /\ report' = [report EXCEPT ![t] = <<>>]
  /\ UNCHANGED <<config, home, flags, safety_log, tel, clock, mode, pend, loopVars,
                 file>>

\* a command as the call issued it: accepted by the vehicle or rejected,
\* from the try block or from the except block
Cmd(name, ok, via, arg) == [cmd |-> name, ok |-> ok, via |-> via, arg |-> arg]

\* ------------------------------------------------------------ log_warning
\* (mutant) the entry is put at the head of the list
LogWarning_AtHead(t) ==
  /\ pend[t] # <<>>
  /\ Len(safety_log) < MaxLog
  /\ safety_log' = <<pend[t][1]>> \o safety_log
  /\ logged' = [logged EXCEPT ![t] = Append(@, pend[t][1])]
  /\ pend' = [pend EXCEPT ![t] = <<>>]
  /\ UNCHANGED <<config, home, flags, tel, clock, mode, pc, op, ret, cmds, exc,
                 err, loopVars,
                 report, file>>

\* The entry is formatted (timestamp read) when the check fails and appended
\* to the list in a later step of the same thread.
LogWarning(t) ==
  /\ pend[t] # <<>>
  /\ Len(safety_log) < MaxLog
  /\ safety_log' = Append(safety_log, pend[t][1])
  /\ logged' = [logged EXCEPT ![t] = Append(@, pend[t][1])]
  /\ pend' = [pend EXCEPT ![t] = <<>>]
  /\ UNCHANGED <<config, home, flags, tel, clock, mode, pc, op, ret, cmds, exc,
                 err, loopVars,
                 report, file>>

\* One of the four checks called inside handle_emergency's try block: the
\* telemetry read raises, or the check fails (and logs), or it passes.
HECheck(t, inv, here, onFail, onPass) ==
  /\ pc[t] = here
  /\ pend[t] = <<>>
  /\ \/ /\ Goto(t, "he_except")
        /\ exc' = [exc EXCEPT ![t] = "check"]
        /\ UNCHANGED pend
     \/ /\ Fails(inv, tel)
        /\ pend' = [pend EXCEPT ![t] = <<EntryOf(inv, tel)>>]
        /\ Goto(t, onFail)
        /\ UNCHANGED exc
     \/ /\ ~Fails(inv, tel)
        /\ Goto(t, onPass)
        /\ UNCHANGED <<pend, exc>>
  /\ UNCHANGED <<config, home, flags, safety_log, tel, clock, mode, op, ret, cmds,
                 err, loopVars, logged,
                 report, file>>

\* (mutant) the call goes past the guard whatever emergency_triggered is
HandleEmergencyGuard_NoTest(t) ==
  /\ pc[t] = Idle
  /\ pend[t] = <<>>
  /\ Begin(t, "handle_emergency", "he_set", "none")
  /\ UNCHANGED <<config, home, flags, safety_log, tel, clock, mode, pend, loopVars,
                 file>>

\* --------------------------------------------------------handle_emergency
\* lines 184-185: the guard is read
HandleEmergencyGuard(t) ==
  /\ pc[t] = Idle
  /\ pend[t] = <<>>
  /\ IF emergency_triggered
       THEN Begin(t, "handle_emergency", Done, "guarded")
       ELSE Begin(t, "handle_emergency", "he_set", "none")
  /\ UNCHANGED <<config, home, flags, safety_log, tel, clock, mode, pend, loopVars,
                 file>>

\* lines 187-192: the guard is set; without a vehicle the call returns here
HandleEmergencySet(t) ==
  /\ pc[t] = "he_set"
  /\ emergency_triggered' = TRUE
  /\ IF vehicle
       THEN pc' = [pc EXCEPT ![t] = "he_battery"] /\ ret' = ret
       ELSE ReturnAs(t, "simulation")
  /\ UNCHANGED <<config, home, monitoring, monitor_thread, safety_log, tel, clock,
                 mode, op, cmds, exc, err, pend, loopVars,
                 logged,
                 report, file>>

\* (mutant) a low battery lands in place instead of returning home
HandleEmergencyBattery_Lands(t) ==
  HECheck(t, "Battery", "he_battery", "he_land", "he_tilt")

\* (mutant) excessive tilt returns home instead of landing
HandleEmergencyTilt_Returns(t) ==
  HECheck(t, "Tilt", "he_tilt", "he_rtl", "he_geofence")

\* lines 196-208: the cascade of checks
HandleEmergencyBattery(t) ==
  HECheck(t, "Battery", "he_battery", "he_rtl", "he_tilt")

HandleEmergencyTilt(t) ==
  HECheck(t, "Tilt", "he_tilt", "he_land", "he_geofence")

HandleEmergencyGeofence(t) ==
  HECheck(t, "Geofence", "he_geofence", "he_rtl", "he_altitude")

\* (mutant) a passing altitude check goes on to the landing
HandleEmergencyAltitude_LandsOnPass(t) ==
  HECheck(t, "Altitude", "he_altitude", "he_descend", "he_land")

HandleEmergencyAltitude(t) ==
  HECheck(t, "Altitude", "he_altitude", "he_descend", "he_finally")

\* vehicle.mode = m inside the try block: accepted, or the interface raises
SetModeInTry(t, here, m) ==
  /\ pc[t] = here
  /\ pend[t] = <<>>
  /\ \E ok \in BOOLEAN :
       /\ cmds' = [cmds EXCEPT ![t] = Append(@, Cmd(m, ok, "try", 0))]
       /\ mode' = IF ok THEN m ELSE mode
       /\ exc' = [exc EXCEPT ![t] = IF ok THEN @ ELSE "command"]
       /\ Goto(t, IF ok THEN "he_finally" ELSE "he_except")
  /\ UNCHANGED <<config, home, flags, safety_log, tel, clock, op, ret, err, pend,
                 loopVars, logged,
                 report, file>>

\* lines 219-223, called at 198 and 206
return_to_home(t) == SetModeInTry(t, "he_rtl", "RTL")

\* lines 225-229, called at 202
emergency_land(t) == SetModeInTry(t, "he_land", "LAND")

\* line 234: max_altitude * 0.8, in tenths of a metre
SafeAltitude10 == (max_altitude * SafeAltitudePercent) \div 10

\* lines 231-236, called at 210: the target is computed and printed only
descend_to_safe_altitude(t) ==
  /\ pc[t] = "he_descend"
  /\ pend[t] = <<>>
  /\ cmds' = [cmds EXCEPT ![t] = Append(@, Cmd("DESCEND", TRUE, "try", SafeAltitude10))]
  /\ Goto(t, "he_finally")
  /\ UNCHANGED <<config, home, flags, safety_log, tel, clock, mode, op, ret, exc,
                 err, pend, loopVars, logged,
                 report, file>>

\* (mutant) the except block only reports the failure
HandleEmergencyExcept_Swallows(t) ==
  /\ pc[t] = "he_except"
  /\ pend[t] = <<>>
  /\ Goto(t, "he_finally")
  /\ UNCHANGED <<config, home, flags, safety_log, tel, clock, mode, results, pend,
                 loopVars,
                 file>>

\* lines 212-214: the except block calls emergency_land; a rejection there
\* leaves the handler as an exception (after the finally block)
HandleEmergencyExcept(t) ==
  /\ pc[t] = "he_except"
  /\ pend[t] = <<>>
  /\ \E ok \in BOOLEAN :
       /\ cmds' = [cmds EXCEPT ![t] = Append(@, Cmd("LAND", ok, "except", 0))]
       /\ mode' = IF ok THEN "LAND" ELSE mode
       /\ err' = [err EXCEPT ![t] = IF ok THEN @ ELSE "raised"]
  /\ Goto(t, "he_finally")
  /\ UNCHANGED <<config, home, flags, safety_log, tel, clock, op, ret, exc, pend,
                 loopVars, logged,
                 report, file>>

\* lines 216-217
HandleEmergencyFinally(t) ==
  /\ pc[t] = "he_finally"
  /\ pend[t] = <<>>
  /\ emergency_triggered' = FALSE
  /\ ReturnAs(t, "handled")
  /\ UNCHANGED <<config, home, monitoring, monitor_thread, safety_log, tel, clock,
                 mode, op, cmds, exc, err, pend, loopVars,
                 logged,
                 report, file>>

handle_emergency(t) ==
  \/ HandleEmergencyGuard(t)
  \/ HandleEmergencySet(t)
  \/ HandleEmergencyBattery(t)
  \/ HandleEmergencyTilt(t)
  \/ HandleEmergencyGeofence(t)
  \/ HandleEmergencyAltitude(t)
  \/ return_to_home(t)
  \/ emergency_land(t)
  \/ descend_to_safe_altitude(t)
  \/ HandleEmergencyExcept(t)
  \/ HandleEmergencyFinally(t)

\* ------------------------------------------------------ set_home_position
\* lines 54-55 / 60: home_lat is assigned
SetHomeLat(t) ==
  /\ pc[t] = Idle
  /\ pend[t] = <<>>
  /\ Begin(t, "set_home_position", "sh_lon", "none")
  /\ home_lat' = IF vehicle THEN Some(tel.lat) ELSE Some(0)
  /\ UNCHANGED <<config, home_lon, flags, safety_log, tel, clock, mode, pend,
                 loopVars,
                 file>>

\* lines 56 / 61: home_lon is assigned
SetHomeLon(t) ==
  /\ pc[t] = "sh_lon"
  /\ home_lon' = IF vehicle THEN Some(tel.lon) ELSE Some(0)
  /\ ReturnAs(t, IF vehicle THEN "home_set" ELSE "mock_home")
  /\ UNCHANGED <<config, home_lat, flags, safety_log, tel, clock, mode, op, cmds,
                 exc, err, pend, loopVars, logged,
                 report, file>>

set_home_position(t) == SetHomeLat(t) \/ SetHomeLon(t)

\* ------------------------------------------------- checks called directly
\* One of the four checks called outside handle_emergency: the telemetry
\* read raises (to the caller), or the check fails and logs, or it passes.
Check(t, inv, here, onFail, onPass) ==
  /\ pc[t] = here
  /\ pend[t] = <<>>
  /\ \/ /\ err' = [err EXCEPT ![t] = "raised"]
        /\ ReturnAs(t, "error")
        /\ UNCHANGED pend
     \/ /\ Fails(inv, tel)
        /\ pend' = [pend EXCEPT ![t] = <<EntryOf(inv, tel)>>]
        /\ Goto(t, onFail)
        /\ UNCHANGED <<ret, err>>
     \/ /\ ~Fails(inv, tel)
        /\ Goto(t, onPass)
        /\ UNCHANGED <<pend, ret, err>>
  /\ UNCHANGED <<config, home, flags, safety_log, tel, clock, mode, op, cmds, exc,
                 logged, loopVars,
                 report, file>>

CheckNames == {"check_altitude", "check_battery", "check_tilt", "check_geofence"}

InvOf(name) == CASE name = "check_altitude" -> "Altitude"
                 [] name = "check_battery"  -> "Battery"
                 [] name = "check_tilt"     -> "Tilt"
                 [] name = "check_geofence" -> "Geofence"

\* lines 95-96, 107-108, 119-120, 138-139: without a vehicle the check passes
CheckBegin(t, name) ==
  /\ pc[t] = Idle
  /\ pend[t] = <<>>
  /\ IF vehicle THEN Begin(t, name, "ck_read", "none")
                ELSE Begin(t, name, Done, "True")
  /\ UNCHANGED <<config, home, flags, safety_log, tel, clock, mode, pend, loopVars,
                 file>>

\* the read and the comparison
CheckRead(t) ==
  /\ op[t] \in CheckNames
  /\ Check(t, InvOf(op[t]), "ck_read", "ck_false", "ck_true")

\* return False (after log_warning) or return True
CheckReturn(t) ==
  /\ op[t] \in CheckNames
  /\ pc[t] \in {"ck_false", "ck_true"}
  /\ pend[t] = <<>>
  /\ ReturnAs(t, IF pc[t] = "ck_true" THEN "True" ELSE "False")
  /\ UNCHANGED <<config, home, flags, safety_log, tel, clock, mode, op, cmds, exc,
                 err, logged, pend, loopVars,
                 report, file>>

CheckCall(t, name) ==
  \/ CheckBegin(t, name)
  \/ op[t] = name /\ CheckRead(t)
  \/ op[t] = name /\ CheckReturn(t)

check_altitude(t) == CheckCall(t, "check_altitude")
check_battery(t)  == CheckCall(t, "check_battery")
check_tilt(t)     == CheckCall(t, "check_tilt")
check_geofence(t) == CheckCall(t, "check_geofence")

\* ------------------------------------------------------------------ is_safe
\* (mutant) the checks are run without a vehicle too
IsSafeBegin_NoVehicleTest(t) ==
  /\ pc[t] = Idle
  /\ pend[t] = <<>>
  /\ Begin(t, "is_safe", "is_altitude", "none")
  /\ UNCHANGED <<config, home, flags, safety_log, tel, clock, mode, pend, loopVars,
                 file>>

\* lines 174-175
IsSafeBegin(t) ==
  /\ pc[t] = Idle
  /\ pend[t] = <<>>
  /\ IF vehicle THEN Begin(t, "is_safe", "is_altitude", "none")
                ELSE Begin(t, "is_safe", Done, "True")
  /\ UNCHANGED <<config, home, flags, safety_log, tel, clock, mode, pend, loopVars,
                 file>>

\* (mutant) a failing battery check does not end the evaluation
IsSafeBattery_GoesOn(t) == Check(t, "Battery", "is_battery", "is_tilt", "is_tilt")

\* lines 177-180: the checks joined by `and`; the first that fails ends the
\* evaluation
IsSafeAltitude(t) == Check(t, "Altitude", "is_altitude", "is_false", "is_battery")
IsSafeBattery(t)  == Check(t, "Battery", "is_battery", "is_false", "is_tilt")
IsSafeTilt(t)     == Check(t, "Tilt", "is_tilt", "is_false", "is_geofence")
IsSafeGeofence(t) == Check(t, "Geofence", "is_geofence", "is_false", "is_true")

IsSafeChecks(t) ==
  \/ IsSafeAltitude(t)
  \/ IsSafeBattery(t)
  \/ IsSafeTilt(t)
  \/ IsSafeGeofence(t)

\* the value of the `and` chain is returned
IsSafeReturn(t) ==
  /\ op[t] = "is_safe"
  /\ pc[t] \in {"is_false", "is_true"}
  /\ pend[t] = <<>>
  /\ ReturnAs(t, IF pc[t] = "is_true" THEN "True" ELSE "False")
  /\ UNCHANGED <<config, home, flags, safety_log, tel, clock, mode, op, cmds, exc,
                 err, logged, pend, loopVars,
                 report, file>>

is_safe(t) ==
  \/ IsSafeBegin(t)
  \/ op[t] = "is_safe" /\ IsSafeChecks(t)
  \/ IsSafeReturn(t)

\* -------------------------------------------------------- get_safety_status
\* Python's truth value of an optional number: None and 0.0 are false
Truthy(x) == x # None /\ x[1] # 0

\* line 247
StatusBegin(t) ==
  /\ pc[t] = Idle
  /\ pend[t] = <<>>
  /\ IF vehicle THEN Begin(t, "get_safety_status", "gs_position", "none")
                ELSE Begin(t, "get_safety_status", "gs_simulation", "none")
  /\ UNCHANGED <<config, home, flags, safety_log, tel, clock, mode, pend, loopVars,
                 file>>

\* lines 248-255: the dictionary returned without a vehicle
StatusSimulation(t) ==
  /\ pc[t] = "gs_simulation"
  /\ report' = [report EXCEPT ![t] =
                  <<[safe |-> TRUE, mode |-> "SIMULATION", altitude |-> 0,
                     battery |-> 100, tilt |-> 0, distance_from_home |-> 0]>>]
  /\ ReturnAs(t, "simulation")
  /\ UNCHANGED <<config, home, flags, safety_log, tel, clock, mode, op, cmds, exc,
                 err, logged, pend, loopVars, file>>

\* lines 257-266: the position is read and the distance computed, 0 when
\* home_lat or home_lon is false; then is_safe() is called (line 269)
StatusPosition(t) ==
  /\ pc[t] = "gs_position"
  /\ \/ /\ err' = [err EXCEPT ![t] = "raised"]
        /\ ReturnAs(t, "error")
        /\ UNCHANGED report
     \/ /\ Goto(t, "is_altitude")
        /\ report' = [report EXCEPT ![t] =
             <<[distance_from_home |->
                  IF Truthy(home_lat) /\ Truthy(home_lon)
                    THEN calculate_distance(home_lat[1], home_lon[1],
                                            tel.lat, tel.lon)
                    ELSE 0]>>]
        /\ UNCHANGED <<ret, err>>
  /\ UNCHANGED <<config, home, flags, safety_log, tel, clock, mode, op, cmds, exc,
                 logged, pend, loopVars, file>>

\* lines 268-277: the remaining readings are taken and the dictionary returned
StatusReturn(t) ==
  /\ op[t] = "get_safety_status"
  /\ pc[t] \in {"is_false", "is_true"}
  /\ pend[t] = <<>>
  /\ \/ /\ err' = [err EXCEPT ![t] = "raised"]
        /\ ReturnAs(t, "error")
        /\ UNCHANGED report
     \/ /\ ReturnAs(t, IF pc[t] = "is_true" THEN "safe" ELSE "unsafe")
        /\ report' = [report EXCEPT ![t] =
             <<[safe |-> pc[t] = "is_true",
                mode |-> mode,
                altitude |-> tel.alt,
                battery |-> tel.level,
                tilt_pitch |-> degrees(tel.pitch),
                tilt_roll |-> degrees(tel.roll),
                distance_from_home |-> report[t][1].distance_from_home,
                warnings |-> Len(safety_log)]>>]
        /\ UNCHANGED err
  /\ UNCHANGED <<config, home, flags, safety_log, tel, clock, mode, op, cmds, exc,
                 logged, pend, loopVars, file>>

get_safety_status(t) ==
  \/ StatusBegin(t)
  \/ StatusSimulation(t)
  \/ StatusPosition(t)
  \/ op[t] = "get_safety_status" /\ IsSafeChecks(t)
  \/ StatusReturn(t)

\* ------------------------------------------- log_warning called by a client
\* the messages a client passes, as their lines of text: one without and one
\* with a line break
Messages == {<<1>>, <<1, 2>>}

\* line 240: the timestamp is read and the entry formatted
WarningFormat(t) ==
  /\ pc[t] = Idle
  /\ pend[t] = <<>>
  /\ Begin(t, "log_warning", "lw_append", "none")
  /\ \E message \in Messages :
       pend' = [pend EXCEPT ![t] = <<Entry("Manual", message)>>]
  /\ UNCHANGED <<config, home, flags, safety_log, tel, clock, mode, loopVars,
                 file>>

\* line 243, after the append of line 242
WarningReturn(t) ==
  /\ pc[t] = "lw_append"
  /\ pend[t] = <<>>
  /\ ReturnAs(t, "logged")
  /\ UNCHANGED <<config, home, flags, safety_log, tel, clock, mode, op, cmds, exc,
                 err, logged, pend, loopVars, report, file>>

log_warning(t) == WarningFormat(t) \/ WarningReturn(t)

\* ----------------------------------------------------------------- save_log
\* A line of the file: the bracketed timestamp it starts with, if any, and
\* its text.
Line(stamp, inv, nums) == [stamp |-> stamp, inv |-> inv, nums |-> nums]

HeaderLine == Line(None, "=== Drone Safety Log ===", <<>>)
BlankLine  == Line(None, "", <<>>)

\* entry + "\n" (line 284) as the lines it makes in the file: the messages
\* of the checks are one line; a client's message has the lines it was given
RECURSIVE Continued(_, _)
Continued(nums, i) ==
  IF i > Len(nums) THEN <<>>
  ELSE <<Line(None, "Manual", <<nums[i]>>)>> \o Continued(nums, i + 1)

EntryLines(e) ==
  IF e.inv = "Manual"
    THEN <<Line(Some(e.ts), e.inv, <<e.nums[1]>>)>> \o Continued(e.nums, 2)
    ELSE <<Line(Some(e.ts), e.inv, e.nums)>>

RECURSIVE Written(_)
Written(log) ==
  IF log = <<>> THEN <<>> ELSE EntryLines(Head(log)) \o Written(Tail(log))

\* line 281: open(filename, 'w') empties the file
SaveLogOpen(t) ==
  /\ pc[t] = Idle
  /\ pend[t] = <<>>
  /\ Begin(t, "save_log", "sl_write", "none")
  /\ file' = <<>>
  /\ UNCHANGED <<config, home, flags, safety_log, tel, clock, mode, pend, loopVars>>

\* lines 282-285: the header and the entries are written and the file closed
SaveLogWrite(t) ==
  /\ pc[t] = "sl_write"
  /\ file' = <<HeaderLine, BlankLine>> \o Written(safety_log)
  /\ ReturnAs(t, "saved")
  /\ UNCHANGED <<config, home, flags, safety_log, tel, clock, mode, op, cmds, exc,
                 err, logged, report, pend, loopVars>>

save_log(t) == SaveLogOpen(t) \/ SaveLogWrite(t)

\* ---------------------------------- calculate_distance called by a client
\* the coordinates of the grid DistanceTable is computed on
Coordinates == {<<la, lo>> : la \in 0..2, lo \in 0..1}

DistanceBegin(t) ==
  /\ pc[t] = Idle
  /\ pend[t] = <<>>
  /\ Begin(t, "calculate_distance", "cd_compute", "none")
  /\ UNCHANGED <<config, home, flags, safety_log, tel, clock, mode, pend, loopVars,
                 file>>

\* lines 159-170, on any two coordinates; the arguments are kept beside the
\* value returned
DistanceReturn(t) ==
  /\ pc[t] = "cd_compute"
  /\ \E a \in Coordinates, b \in Coordinates :
       report' = [report EXCEPT ![t] =
                    <<[from |-> a, to |-> b,
                       distance |-> calculate_distance(a[1], a[2], b[1], b[2])]>>]
  /\ ReturnAs(t, "distance")
  /\ UNCHANGED <<config, home, flags, safety_log, tel, clock, mode, op, cmds, exc,
                 err, logged, pend, loopVars, file>>

distance(t) == DistanceBegin(t) \/ DistanceReturn(t)

\* ------------------------------------------------------- loop thread slots
Alive(l) == lpc[l] \in {"top", "altitude", "battery", "tilt", "geofence", "sleep"}

\* a Thread object nobody refers to and that does not run is garbage
Collect(f, keep) ==
  [l \in Loops |-> IF l # keep /\ f[l] \in {"created", "done", "crashed"}
                   THEN "none" ELSE f[l]]

FreeSlots(f) == {l \in Loops : f[l] = "none"}
Min(S) == CHOOSE x \in S : \A y \in S : x <= y

\* --------------------------------------------------------- start_monitoring
\* (mutant) the flag is not tested
StartMonitoringCheck_NoTest(t) ==
  /\ pc[t] = Idle
  /\ pend[t] = <<>>
  /\ Begin(t, "start_monitoring", "sm_set", "none")
  /\ UNCHANGED <<config, home, flags, safety_log, tel, clock, mode, pend,
                 loopVars,
                 file>>

\* lines 65-67: the flag is read
StartMonitoringCheck(t) ==
  /\ pc[t] = Idle
  /\ pend[t] = <<>>
  /\ IF monitoring
       THEN Begin(t, "start_monitoring", Done, "already_running")
       ELSE Begin(t, "start_monitoring", "sm_set", "none")
  /\ UNCHANGED <<config, home, flags, safety_log, tel, clock, mode, pend,
                 loopVars,
                 file>>

\* line 69
StartMonitoringSet(t) ==
  /\ pc[t] = "sm_set"
  /\ monitoring' = TRUE
  /\ Goto(t, "sm_create")
  /\ UNCHANGED <<config, home, emergency_triggered, monitor_thread, safety_log,
                 tel, clock, mode, results, pend, loopVars,
                 file>>

\* line 70: a new Thread object replaces the one monitor_thread referred to
StartMonitoringCreate(t) ==
  /\ pc[t] = "sm_create"
  /\ LET freed == Collect(lpc, NoThread)
     IN /\ FreeSlots(freed) # {}
        /\ LET l == Min(FreeSlots(freed))
           IN /\ lpc' = [freed EXCEPT ![l] = "created"]
              /\ monitor_thread' = l
              /\ flipped' = [flipped EXCEPT ![l] = FALSE]
  /\ Goto(t, "sm_start")
  /\ UNCHANGED <<config, home, monitoring, emergency_triggered, safety_log,
                 tel, clock, mode, results, pend, lpend, tickFailed, tickLog,
                 file>>

\* line 71: self.monitor_thread.start(), on whatever monitor_thread is now;
\* starting a thread a second time raises RuntimeError
StartMonitoringStart(t) ==
  /\ pc[t] = "sm_start"
  /\ IF lpc[monitor_thread] = "created"
       THEN /\ lpc' = [lpc EXCEPT ![monitor_thread] = "top"]
            /\ ReturnAs(t, "started")
            /\ UNCHANGED err
       ELSE /\ err' = [err EXCEPT ![t] = "raised"]
            /\ ReturnAs(t, "error")
            /\ UNCHANGED lpc
  /\ UNCHANGED <<config, home, flags, safety_log, tel, clock, mode, op, cmds,
                 exc, pend, lpend, tickFailed, flipped, tickLog,
                 logged,
                 report, file>>

start_monitoring(t) ==
  \/ StartMonitoringCheck(t)
  \/ StartMonitoringSet(t)
  \/ StartMonitoringCreate(t)
  \/ StartMonitoringStart(t)

\* ---------------------------------------------------------- stop_monitoring
\* line 76
\* (mutant) stopping also forgets the home position
StopMonitoringClear_ForgetsHome(t) ==
  /\ pc[t] = Idle
  /\ pend[t] = <<>>
  /\ Begin(t, "stop_monitoring", "st_join", "none")
  /\ monitoring' = FALSE
  /\ home_lat' = None
  /\ home_lon' = None
  /\ flipped' = [l \in Loops |-> flipped[l] \/ (monitoring /\ Alive(l))]
  /\ UNCHANGED <<config, emergency_triggered, monitor_thread, safety_log,
                 tel, clock, mode, pend, lpc, lpend, tickFailed, tickLog,
                 file>>

StopMonitoringClear(t) ==
  /\ pc[t] = Idle
  /\ pend[t] = <<>>
  /\ Begin(t, "stop_monitoring", "st_join", "none")
  /\ monitoring' = FALSE
  /\ flipped' = [l \in Loops |-> flipped[l] \/ (monitoring /\ Alive(l))]
  /\ UNCHANGED <<config, home, emergency_triggered, monitor_thread, safety_log,
                 tel, clock, mode, pend, lpc, lpend, tickFailed, tickLog,
                 file>>

\* (mutant) join is called on monitor_thread without the test of line 77
StopMonitoringJoin_Strict(t) ==
  /\ pc[t] = "st_join"
  /\ err' = [err EXCEPT ![t] =
               IF monitor_thread = NoThread \/ lpc[monitor_thread] = "created"
               THEN "raised" ELSE @]
  /\ ReturnAs(t, IF monitor_thread = NoThread \/ lpc[monitor_thread] = "created"
                 THEN "error" ELSE "stopped")
  /\ UNCHANGED <<config, home, flags, safety_log, tel, clock, mode, op, cmds,
                 exc, pend, loopVars, logged,
                 report, file>>

\* lines 77-79: join(timeout=2) returns when the thread has ended or the
\* timeout has passed; joining a thread not yet started raises RuntimeError
StopMonitoringJoin(t) ==
  /\ pc[t] = "st_join"
  /\ err' = [err EXCEPT ![t] =
               IF monitor_thread # NoThread /\ lpc[monitor_thread] = "created"
               THEN "raised" ELSE @]
  /\ ReturnAs(t, IF monitor_thread # NoThread /\ lpc[monitor_thread] = "created"
                 THEN "error" ELSE "stopped")
  /\ UNCHANGED <<config, home, flags, safety_log, tel, clock, mode, op, cmds,
                 exc, pend, loopVars, logged,
                 report, file>>

stop_monitoring(t) == StopMonitoringClear(t) \/ StopMonitoringJoin(t)

\* ------------------------------------------------------------ _monitor_loop
\* a loop thread that ends is kept only while monitor_thread refers to it
Ended(l, how) == IF monitor_thread = l THEN how ELSE "none"

\* (mutant) the while test does not look at the flag
LoopTest_IgnoresFlag(l) ==
  /\ lpc[l] = "top"
  /\ lpc' = [lpc EXCEPT ![l] = IF vehicle THEN "altitude" ELSE "sleep"]
  /\ tickFailed' = [tickFailed EXCEPT ![l] = FALSE]
  /\ tickLog' = [tickLog EXCEPT ![l] = <<>>]
  /\ UNCHANGED <<config, home, flags, safety_log, tel, clock, mode, fgLocals,
                 lpend, flipped,
                 file>>

\* lines 83-84: the while test, then the vehicle test
LoopTest(l) ==
  /\ lpc[l] = "top"
  /\ lpc' = [lpc EXCEPT ![l] = IF ~monitoring THEN Ended(l, "done")
                               ELSE IF vehicle THEN "altitude" ELSE "sleep"]
  /\ tickFailed' = [tickFailed EXCEPT ![l] = FALSE]
  /\ tickLog' = [tickLog EXCEPT ![l] = <<>>]
  /\ UNCHANGED <<config, home, flags, safety_log, tel, clock, mode, fgLocals,
                 lpend, flipped,
                 file>>

\* lines 86-89: one check of the tick; an exception is not caught in the loop
LoopCheck(l, inv, here, next) ==
  /\ lpc[l] = here
  /\ lpend[l] = <<>>
  /\ \/ /\ lpc' = [lpc EXCEPT ![l] = Ended(l, "crashed")]
        /\ UNCHANGED <<lpend, tickFailed>>
     \/ /\ Fails(inv, tel)
        /\ lpend' = [lpend EXCEPT ![l] = <<EntryOf(inv, tel)>>]
        /\ tickFailed' = [tickFailed EXCEPT ![l] = TRUE]
        /\ lpc' = [lpc EXCEPT ![l] = next]
     \/ /\ ~Fails(inv, tel)
        /\ lpc' = [lpc EXCEPT ![l] = next]
        /\ UNCHANGED <<lpend, tickFailed>>
  /\ UNCHANGED <<config, home, flags, safety_log, tel, clock, mode, fgLocals,
                 flipped, tickLog,
                 file>>

\* (mutant) the tick runs the geofence check in place of the tilt check
LoopTilt_Skipped(l) == LoopCheck(l, "Geofence", "tilt", "geofence")

LoopAltitude(l) == LoopCheck(l, "Altitude", "altitude", "battery")
LoopBattery(l)  == LoopCheck(l, "Battery", "battery", "tilt")
LoopTilt(l)     == LoopCheck(l, "Tilt", "tilt", "geofence")
LoopGeofence(l) == LoopCheck(l, "Geofence", "geofence", "sleep")

\* log_warning called by a check of the loop
LoopLogWarning(l) ==
  /\ lpend[l] # <<>>
  /\ Len(safety_log) < MaxLog
  /\ safety_log' = Append(safety_log, lpend[l][1])
  /\ tickLog' = [tickLog EXCEPT ![l] = Append(@, lpend[l][1])]
  /\ lpend' = [lpend EXCEPT ![l] = <<>>]
  /\ UNCHANGED <<config, home, flags, tel, clock, mode, fgLocals, lpc,
                 tickFailed, flipped,
                 file>>

\* line 91
LoopSleep(l) ==
  /\ lpc[l] = "sleep"
  /\ lpend[l] = <<>>
  /\ lpc' = [lpc EXCEPT ![l] = "top"]
  /\ UNCHANGED <<config, home, flags, safety_log, tel, clock, mode, fgLocals,
                 lpend, tickFailed, flipped, tickLog,
                 file>>

_monitor_loop(l) ==
  \/ LoopTest(l)
  \/ LoopAltitude(l)
  \/ LoopBattery(l)
  \/ LoopTilt(l)
  \/ LoopGeofence(l)
  \/ LoopLogWarning(l)
  \/ LoopSleep(l)

\* -------------------------------------------------------------- environment
\* the vehicle moves, tilts, discharges: one reading changes at a time
TelemetryChange ==
  /\ vehicle
  /\ \E n \in Telemetry :
       /\ Cardinality({f \in DOMAIN tel : n[f] # tel[f]}) = 1
       /\ tel' = n
  /\ UNCHANGED <<config, home, flags, safety_log, clock, mode, pc, results, pend,
                 loopVars,
                 file>>

\* datetime.now() advances
ClockTick ==
  /\ clock < MaxClock
  /\ clock' = clock + 1
  /\ UNCHANGED <<config, home, flags, safety_log, tel, mode, fgLocals, loopVars,
                 file>>

\* ------------------------------------------------------------ specification
\* __init__ (lines 23, 31, 35-44): everything but the thresholds
Constructed ==
  /\ vehicle \in BOOLEAN
  /\ geofence_enabled \in BOOLEAN
  /\ home_lat = None /\ home_lon = None
  /\ monitoring = FALSE
  /\ emergency_triggered = FALSE
  /\ monitor_thread = NoThread
  /\ safety_log = <<>>
  /\ tel \in Telemetry
  /\ mode = "GUIDED"
  /\ clock = 0
  /\ file = <<>>
  /\ pc = [t \in Fg |-> Idle]
  /\ op = [t \in Fg |-> "none"]
  /\ ret = [t \in Fg |-> "none"]
  /\ cmds = [t \in Fg |-> <<>>]
  /\ exc = [t \in Fg |-> "none"]
  /\ err = [t \in Fg |-> "none"]
  /\ logged = [t \in Fg |-> <<>>]
  /\ report = [t \in Fg |-> <<>>]
  /\ pend = [t \in Fg |-> <<>>]
  /\ lpc = [l \in Loops |-> "none"]
  /\ lpend = [l \in Loops |-> <<>>]
  /\ tickFailed = [l \in Loops |-> FALSE]
  /\ flipped = [l \in Loops |-> FALSE]
  /\ tickLog = [l \in Loops |-> <<>>]

\* __init__ (lines 22-44) with the default thresholds
Init ==
  /\ max_altitude = DefaultMaxAltitude
  /\ min_battery = DefaultMinBattery
  /\ max_tilt_angle = DefaultMaxTiltAngle
  /\ geofence_radius = DefaultGeofenceRadius
  /\ Constructed

Next ==
  \/ \E t \in Fg : handle_emergency(t)
  \/ \E t \in Fg : LogWarning(t)
  \/ \E t \in Fg : set_home_position(t)
  \/ \E t \in Fg : start_monitoring(t)
  \/ \E t \in Fg : stop_monitoring(t)
  \/ \E t \in Fg : check_altitude(t)
  \/ \E t \in Fg : check_battery(t)
  \/ \E t \in Fg : check_tilt(t)
  \/ \E t \in Fg : check_geofence(t)
  \/ \E t \in Fg : is_safe(t)
  \/ \E t \in Fg : get_safety_status(t)
  \/ \E t \in Fg : log_warning(t)
  \/ \E t \in Fg : save_log(t)
  \/ \E t \in Fg : Return(t)
  \/ \E l \in Loops : _monitor_loop(l)
  \/ TelemetryChange
  \/ ClockTick

Spec == Init /\ [][Next]_vars

\* no foreground thread other than t is inside a call
Alone(t) == \A u \in Fg \ {t} : pc[u] = Idle
Quiet    == \A u \in Fg : pc[u] = Idle

\* The emergency handler called by one thread at a time, on every telemetry
\* and home the vehicle's movement and set_home_position can produce between
\* the calls.
NextDispatch ==
  \/ \E t \in Fg : Alone(t) /\ handle_emergency(t)
  \/ \E t \in Fg : LogWarning(t)
  \/ \E t \in Fg : Alone(t) /\ set_home_position(t)
  \/ \E t \in Fg : Return(t)
  \/ Quiet /\ TelemetryChange

SpecDispatch == Init /\ [][NextDispatch]_vars

\* The emergency handler called by several threads at once.
NextGuard ==
  \/ \E t \in Fg : handle_emergency(t)
  \/ \E t \in Fg : LogWarning(t)
  \/ \E t \in Fg : Return(t)

SpecGuard == Init /\ [][NextGuard]_vars

\* The background loop under start_monitoring and stop_monitoring called by
\* one thread at a time, on every telemetry.
NextMonitor ==
  \/ \E t \in Fg : Alone(t) /\ start_monitoring(t)
  \/ \E t \in Fg : Alone(t) /\ stop_monitoring(t)
  \/ \E t \in Fg : Return(t)
  \/ \E l \in Loops : _monitor_loop(l)

\* home is never set here, so the geofence inputs are left at one value
InitMonitor == Init /\ geofence_enabled /\ tel.lat = 0

SpecMonitor == InitMonitor /\ [][NextMonitor]_vars

\* The same under the scheduling the program runs with: a loop thread that
\* can take a step is eventually scheduled (its reads, its append and its
\* sleep all return), and join(timeout=2) returns.
FairMonitor ==
  /\ \A l \in Loops : WF_vars(_monitor_loop(l))
  /\ \A t \in Fg : WF_vars(StopMonitoringJoin(t))

\* one snapshot on which no check fails and one on which a check fails
InitStop ==
  /\ InitMonitor
  /\ tel.level = DefaultMinBattery /\ tel.pitch = 3 /\ tel.roll = 0
  /\ vehicle \/ tel.alt = DefaultMaxAltitude

SpecMonitorFair == InitStop /\ [][NextMonitor]_vars /\ FairMonitor

\* The same calls and loop on those telemetries, without the fairness.
SpecStop == InitStop /\ [][NextMonitor]_vars

\* The checks, is_safe and get_safety_status called by one thread at a time,
\* on every telemetry and home the vehicle's movement and set_home_position
\* can produce between the calls.
NextChecks ==
  \/ \E t \in Fg : Alone(t) /\ check_altitude(t)
  \/ \E t \in Fg : Alone(t) /\ check_battery(t)
  \/ \E t \in Fg : Alone(t) /\ check_tilt(t)
  \/ \E t \in Fg : Alone(t) /\ check_geofence(t)
  \/ \E t \in Fg : Alone(t) /\ is_safe(t)
  \/ \E t \in Fg : Alone(t) /\ get_safety_status(t)
  \/ \E t \in Fg : LogWarning(t)
  \/ \E t \in Fg : Alone(t) /\ set_home_position(t)
  \/ \E t \in Fg : Return(t)
  \/ Quiet /\ TelemetryChange

SpecChecks == Init /\ [][NextChecks]_vars

\* The operations that test for the vehicle interface, called by one thread
\* at a time, with and without a vehicle.
NextSimulation ==
  \/ \E t \in Fg : Alone(t) /\ check_altitude(t)
  \/ \E t \in Fg : Alone(t) /\ check_battery(t)
  \/ \E t \in Fg : Alone(t) /\ check_tilt(t)
  \/ \E t \in Fg : Alone(t) /\ check_geofence(t)
  \/ \E t \in Fg : Alone(t) /\ is_safe(t)
  \/ \E t \in Fg : Alone(t) /\ handle_emergency(t)
  \/ \E t \in Fg : Alone(t) /\ start_monitoring(t)
  \/ \E t \in Fg : LogWarning(t)
  \/ \E t \in Fg : Return(t)
  \/ \E l \in Loops : _monitor_loop(l)

\* altitude and battery at the limit and beyond it
InitSimulation == InitMonitor /\ tel.pitch = 3 /\ tel.roll = 0

SpecSimulation == InitSimulation /\ [][NextSimulation]_vars

\* The log under appends from the background loop and from a foreground
\* call at once, with the clock advancing.
NextLog ==
  \/ \E t \in Fg : Alone(t) /\ start_monitoring(t)
  \/ \E t \in Fg : Alone(t) /\ is_safe(t)
  \/ \E t \in Fg : Alone(t) /\ log_warning(t)
  \/ \E t \in Fg : LogWarning(t)
  \/ \E t \in Fg : Return(t)
  \/ \E l \in Loops : _monitor_loop(l)
  \/ ClockTick

SpecLog == InitMonitor /\ [][NextLog]_vars

\* The log written to the file after is_safe and clients' log_warning calls
\* have appended to it, one call at a time, with the clock advancing.
NextExport ==
  \/ \E t \in Fg : Alone(t) /\ is_safe(t)
  \/ \E t \in Fg : Alone(t) /\ log_warning(t)
  \/ \E t \in Fg : Alone(t) /\ save_log(t)
  \/ \E t \in Fg : LogWarning(t)
  \/ \E t \in Fg : Return(t)
  \/ ClockTick

SpecExport == InitSimulation /\ [][NextExport]_vars

\* the values a configuration may give for a threshold: the default, zero
\* and a negative number
Configured(default) == {default, 0, -1}

\* __init__ (lines 27-32): config.get(...) is stored as it comes; here at
\* most one threshold differs from its default
InitConfig ==
  /\ max_altitude \in Configured(DefaultMaxAltitude)
  /\ min_battery \in Configured(DefaultMinBattery)
  /\ max_tilt_angle \in Configured(DefaultMaxTiltAngle)
  /\ geofence_radius \in Configured(DefaultGeofenceRadius)
  /\ Cardinality({i \in 1..4 :
                    <<max_altitude, min_battery, max_tilt_angle, geofence_radius>>[i]
                      # <<DefaultMaxAltitude, DefaultMinBattery,
                          DefaultMaxTiltAngle, DefaultGeofenceRadius>>[i]}) <= 1
  /\ Constructed
  /\ geofence_enabled /\ tel.lat = 0 /\ tel.pitch = 3 /\ tel.roll = 0

\* monitoring started on whatever the configuration gave
NextConfig ==
  \/ \E t \in Fg : Alone(t) /\ start_monitoring(t)
  \/ \E t \in Fg : Return(t)
  \/ \E l \in Loops : _monitor_loop(l)

SpecConfig == InitConfig /\ [][NextConfig]_vars

\* calculate_distance called on every pair of coordinates of the grid
NextDistance ==
  \/ \E t \in Fg : distance(t)
  \/ \E t \in Fg : Return(t)

SpecDistance == InitSimulation /\ [][NextDistance]_vars

\* start_monitoring called by several threads at once while the loops run
NextStart ==
  \/ \E t \in Fg : start_monitoring(t)
  \/ \E t \in Fg : Return(t)
  \/ \E l \in Loops : _monitor_loop(l)

SpecStart == InitStop /\ [][NextStart]_vars

\* get_safety_status called while the vehicle's telemetry changes
NextSnapshot ==
  \/ \E t \in Fg : Alone(t) /\ get_safety_status(t)
  \/ \E t \in Fg : LogWarning(t)
  \/ \E t \in Fg : Return(t)
  \/ TelemetryChange

SpecSnapshot == InitSimulation /\ [][NextSnapshot]_vars

\* Every operation of the monitor over one flight, called by one thread at
\* a time: home is set before monitoring is first started, the checks, the
\* status and the emergency handler are called while the loop runs, and the
\* log is saved after monitoring was stopped.
Calls(t, when) == Alone(t) /\ (pc[t] = Idle => when)

BeforeFlight == monitor_thread = NoThread
InFlight     == monitoring /\ file = <<>>
AfterFlight  == ~monitoring /\ monitor_thread # NoThread

NextFrame ==
  \/ \E t \in Fg : Calls(t, BeforeFlight) /\ set_home_position(t)
  \/ \E t \in Fg : Calls(t, BeforeFlight \/ InFlight) /\ start_monitoring(t)
  \/ \E t \in Fg : Calls(t, InFlight) /\ stop_monitoring(t)
  \/ \E t \in Fg : Calls(t, InFlight) /\ check_altitude(t)
  \/ \E t \in Fg : Calls(t, InFlight) /\ check_battery(t)
  \/ \E t \in Fg : Calls(t, InFlight) /\ check_tilt(t)
  \/ \E t \in Fg : Calls(t, InFlight) /\ check_geofence(t)
  \/ \E t \in Fg : Calls(t, InFlight) /\ is_safe(t)
  \/ \E t \in Fg : Calls(t, InFlight) /\ handle_emergency(t)
  \/ \E t \in Fg : Calls(t, InFlight) /\ get_safety_status(t)
  \/ \E t \in Fg : Calls(t, AfterFlight) /\ save_log(t)
  \/ \E t \in Fg : LogWarning(t)
  \/ \E t \in Fg : Return(t)
  \/ \E l \in Loops : _monitor_loop(l)

\* without a vehicle, or with one whose altitude or battery is beyond its limit
InitFrame ==
  /\ InitSimulation
  /\ AltitudeFails(tel) # BatteryFails(tel)
  /\ vehicle \/ AltitudeFails(tel)

SpecFrame == InitFrame /\ [][NextFrame]_vars

\* ================================================================== claims
HandlerPositions ==
  {"he_battery", "he_tilt", "he_geofence", "he_altitude", "he_rtl", "he_land",
   "he_descend", "he_except", "he_finally"}

\* thread t is between setting and clearing emergency_triggered
InHandler(t) == pc[t] \in HandlerPositions

\* thread t's handle_emergency call went past the guard and has returned
CallEnded(t) == pc[t] = Done /\ op[t] = "handle_emergency" /\ ret[t] = "handled"

\* the call issued the command and the vehicle took it
Issued(t, name) ==
  \E i \in 1..Len(cmds[t]) : cmds[t][i].cmd = name /\ cmds[t][i].ok
IssuedVia(t, name, via) ==
  \E i \in 1..Len(cmds[t]) :
    cmds[t][i].cmd = name /\ cmds[t][i].ok /\ cmds[t][i].via = via

\* C1: every tick of the background loop in which a check failed invokes
\* handle_emergency in that same tick: the loop reaches its sleep only from
\* the handler when a check of the tick has failed.
C1_FailingTickInvokesHandler ==
  [][\A l \in Loops :
       (lpc[l] # "sleep" /\ lpc'[l] = "sleep" /\ tickFailed'[l])
         => lpc[l] \in HandlerPositions]_vars

\* C2: at most one handle_emergency call is past the guard at any instant.
C2_OneCallPastGuard == Cardinality({t \in Fg : InHandler(t)}) <= 1

\* C3: emergency_triggered is true only while a handle_emergency call is
\* executing; whenever a call has returned the flag is false.
C3_GuardReleasedOnReturn ==
  emergency_triggered => \E t \in Fg : InHandler(t)

Selected(t) ==
  IF BatteryFails(t) THEN <<Cmd("RTL", TRUE, "try", 0)>>
  ELSE IF TiltFails(t) THEN <<Cmd("LAND", TRUE, "try", 0)>>
  ELSE IF GeofenceFails(t) THEN <<Cmd("RTL", TRUE, "try", 0)>>
  ELSE IF AltitudeFails(t) THEN <<Cmd("DESCEND", TRUE, "try", 8 * max_altitude)>>
  ELSE <<>>

\* C5: with home set and a vehicle that accepts commands, one call issues
\* exactly the action the fixed priority selects, and the advisory descent
\* leaves the flight mode as it was.
C5_PrioritySelection ==
  /\ [](\A t \in Fg :
          (CallEnded(t) /\ vehicle /\ ~HomeUnset /\ exc[t] = "none")
            => /\ cmds[t] = Selected(tel)
               /\ Len(cmds[t]) <= 1
               /\ Issued(t, "RTL") \/ Issued(t, "LAND") => mode = cmds[t][1].cmd)
  /\ [][\A t \in Fg :
          (pc[t] = "he_descend" /\ pc'[t] # "he_descend") => mode' = mode]_vars

C5_Witness ==
  \E t \in Fg :
    /\ CallEnded(t) /\ vehicle /\ ~HomeUnset /\ exc[t] = "none"
    /\ ~BatteryFails(tel) /\ ~TiltFails(tel) /\ ~GeofenceFails(tel)
    /\ AltitudeFails(tel)
    /\ cmds[t] = <<Cmd("DESCEND", TRUE, "try", 80)>>

\* C6: with home unset a failing battery check issues no RTL; the call goes
\* on to the lower-priority causes as if the battery check had passed.
C6_BatteryNeedsHome ==
  \A t \in Fg :
    (CallEnded(t) /\ vehicle /\ HomeUnset /\ BatteryFails(tel) /\ exc[t] = "none")
      => cmds[t] = IF TiltFails(tel) THEN <<Cmd("LAND", TRUE, "try", 0)>>
                   ELSE IF AltitudeFails(tel)
                     THEN <<Cmd("DESCEND", TRUE, "try", 8 * max_altitude)>>
                     ELSE <<>>

\* the fallback commands of a call: those issued from the except block
Fallbacks(t) == {i \in 1..Len(cmds[t]) : cmds[t][i].via = "except"}

\* C7: when the selected command is rejected or a check raises, the handler
\* catches it and issues the fallback LAND exactly once, as its last command.
C7_FallbackLandOnce ==
  \A t \in Fg :
    (pc[t] \in {"he_finally", Done} /\ op[t] = "handle_emergency"
       /\ exc[t] # "none")
      => /\ Fallbacks(t) = {Len(cmds[t])}
         /\ cmds[t][Len(cmds[t])].cmd = "LAND"
         /\ cmds[t][Len(cmds[t])].ok => mode = "LAND"
         /\ exc[t] = "command" =>
              (Len(cmds[t]) = 2 /\ ~cmds[t][1].ok /\ cmds[t][1].via = "try")
         /\ exc[t] = "check" => Len(cmds[t]) = 1

C7_Witness ==
  \E t \in Fg :
    /\ CallEnded(t) /\ exc[t] = "command"
    /\ cmds[t] = <<Cmd("RTL", FALSE, "try", 0), Cmd("LAND", TRUE, "except", 0)>>
    /\ mode = "LAND"

\* C8: handle_emergency never propagates an error to its caller.
C8_HandlerNeverRaises ==
  \A t \in Fg : op[t] = "handle_emergency" => err[t] = "none"

\* C9: while monitoring is true after start_monitoring has returned, the
\* background loop is alive.
C9_LoopSurvivesTickFailure ==
  (monitoring /\ Quiet /\ monitor_thread # NoThread) => Alive(monitor_thread)

\* loop threads that a step starts
Started == {l \in Loops : lpc[l] = "created" /\ lpc'[l] = "top"}

\* C10: start_monitoring called while monitoring is true changes nothing and
\* starts no loop; called while stopped it sets monitoring and launches
\* exactly one loop.
C10_StartIdempotent ==
  [][\A t \in Fg :
       /\ (pc[t] = Idle /\ op'[t] = "start_monitoring" /\ monitoring)
            => /\ pc'[t] = Done /\ ret'[t] = "already_running"
               /\ UNCHANGED <<config, home, flags, safety_log, tel, clock, mode,
                              loopVars>>
       /\ (pc[t] = Idle /\ op'[t] = "start_monitoring" /\ ~monitoring)
            => pc'[t] = "sm_set" /\ Started = {}
       /\ (pc[t] = "sm_set" /\ pc'[t] # "sm_set")
            => monitoring' /\ Started = {}
       /\ (pc[t] = "sm_create" /\ pc'[t] # "sm_create")
            => monitoring' /\ Started = {}
       /\ (pc[t] = "sm_start" /\ pc'[t] # "sm_start")
            => /\ monitoring' /\ ret'[t] = "started"
               /\ Started = {monitor_thread'}
               /\ Cardinality({l \in Loops : Alive(l)'}) =
                    Cardinality({l \in Loops : Alive(l)}) + 1]_vars

C10_Witness ==
  \E t \in Fg :
    /\ pc[t] = Done /\ op[t] = "start_monitoring" /\ ret[t] = "already_running"
    /\ monitoring /\ monitor_thread # NoThread /\ Alive(monitor_thread)

\* C11: once stop_monitoring has set monitoring to false, a loop thread that
\* was running at that moment starts no further round of checks.
C11_NoTickAfterStop ==
  [][\A l \in Loops :
       (lpc[l] = "top" /\ lpc'[l] = "altitude") => ~flipped[l]]_vars

\* a loop thread waits to append to a log that holds MaxLog entries already
LogBoundReached ==
  \E l \in Loops : lpend[l] # <<>> /\ Len(safety_log) = MaxLog

\* C12: once monitoring is false, unless a start_monitoring sets it again,
\* every loop thread eventually ends; and a stop_monitoring call that has
\* cleared the flag eventually returns.
C12_StopEndsLoop ==
  /\ ~monitoring ~>
        (monitoring \/ LogBoundReached \/ \A l \in Loops : ~Alive(l))
  /\ \A t \in Fg : (pc[t] = "st_join") ~> (pc[t] = Done)

C12_Witness ==
  \E t \in Fg :
    /\ pc[t] = Done /\ op[t] = "stop_monitoring" /\ ret[t] = "stopped"
    /\ ~monitoring /\ monitor_thread # NoThread
    /\ lpc[monitor_thread] = "done" /\ flipped[monitor_thread]

\* C13: a start_monitoring call made while no loop is running gets past the
\* flag test, and the call ends with monitoring true and its loop running.
C13_RestartAlways ==
  [][\A t \in Fg :
       /\ (pc[t] = Idle /\ op'[t] = "start_monitoring"
             /\ \A l \in Loops : ~Alive(l))
            => pc'[t] = "sm_set"
       /\ (pc[t] = "sm_start" /\ pc'[t] = Done)
            => (monitoring' /\ Alive(monitor_thread)')]_vars

\* the limits as the contract states them, boundary values included
WithinLimits(t) ==
  /\ t.alt <= max_altitude
  /\ t.level >= min_battery
  /\ Abs(t.pitch) * DegreesPerUnit <= max_tilt_angle
  /\ Abs(t.roll) * DegreesPerUnit <= max_tilt_angle
  /\ \/ ~geofence_enabled
     \/ home_lat = None \/ home_lon = None
     \/ calculate_distance(home_lat[1], home_lon[1], t.lat, t.lon)
          <= geofence_radius * 1000

\* thread t's call of the named operation has returned a value
Returned(t, name) == pc[t] = Done /\ op[t] = name /\ err[t] = "none"

\* C14: with a vehicle attached, is_safe returns true and appends nothing on
\* every snapshot within the limits (boundary values included) and returns
\* false on every other snapshot.
C14_IsSafeWithinLimits ==
  \A t \in Fg :
    (Returned(t, "is_safe") /\ vehicle)
      => IF WithinLimits(tel) THEN ret[t] = "True" /\ logged[t] = <<>>
                              ELSE ret[t] = "False"

C14_Witness ==
  \E t \in Fg :
    /\ Returned(t, "is_safe") /\ vehicle /\ ret[t] = "True"
    /\ tel.alt = max_altitude /\ tel.level = min_battery
    /\ degrees(tel.pitch) = max_tilt_angle
    /\ geofence_enabled /\ ~HomeUnset

Invariants == {"Altitude", "Battery", "Tilt", "Geofence"}
Violated(t) == {inv \in Invariants : Fails(inv, t)}

Threshold(inv) == CASE inv = "Altitude" -> max_altitude
                    [] inv = "Battery"  -> min_battery
                    [] inv = "Tilt"     -> max_tilt_angle
                    [] inv = "Geofence" -> geofence_radius

\* the measured values as a message prints them
Measured(inv, t) ==
  CASE inv = "Altitude" -> {t.alt * 10}
    [] inv = "Battery"  -> {t.level}
    [] inv = "Tilt"     -> {degrees(t.pitch) * 10, degrees(t.roll) * 10}
    [] inv = "Geofence" ->
         {Fmt1(calculate_distance(home_lat[1], home_lon[1], t.lat, t.lon))}

Range(q) == {q[i] : i \in 1..Len(q)}

\* C15: on a snapshot violating exactly one invariant, is_safe returns false
\* and appends exactly one entry, which names that invariant's threshold and
\* the measured value.
C15_OneViolationOneEntry ==
  \A t \in Fg :
    (Returned(t, "is_safe") /\ vehicle /\ Cardinality(Violated(tel)) = 1)
      => /\ ret[t] = "False"
         /\ Len(logged[t]) = 1
         /\ \A inv \in Violated(tel) :
              /\ logged[t][1].inv = inv
              /\ Threshold(inv) \in Range(logged[t][1].nums)
              /\ Measured(inv, tel) \subseteq Range(logged[t][1].nums)

CheckOrder == <<"Altitude", "Battery", "Tilt", "Geofence">>

\* the checks the current tick of loop l has run so far
ChecksRun(l) == CASE lpc[l] = "altitude" -> 0
                  [] lpc[l] = "battery"  -> 1
                  [] lpc[l] = "tilt"     -> 2
                  [] lpc[l] = "geofence" -> 3
                  [] lpc[l] = "sleep"    -> 4

FailsNow(inv) == Fails(inv, tel)
InvariantsOf(q) == [i \in 1..Len(q) |-> q[i].inv]

RECURSIVE IsSubseq(_, _)
IsSubseq(a, b) ==
  IF a = <<>> THEN TRUE
  ELSE IF b = <<>> THEN FALSE
  ELSE IF a[1] = b[1] THEN IsSubseq(Tail(a), Tail(b))
  ELSE IsSubseq(a, Tail(b))

IsPrefix(a, b) == Len(a) <= Len(b) /\ SubSeq(b, 1, Len(a)) = a

\* C17: every step leaves the log as it was or extends it at its end.
C17_AppendOnly == [][IsPrefix(safety_log, safety_log')]_vars

C17_Witness ==
  /\ Len(safety_log) = 2
  /\ safety_log[1].inv = "Manual"
  /\ safety_log[2].inv \in Invariants
  /\ \E l \in Loops : tickLog[l] = <<safety_log[2]>>

\* C18: no entry of the log carries an earlier timestamp than the entry
\* before it.
C18_TimestampsOrdered ==
  \A i \in 1..(Len(safety_log) - 1) : safety_log[i].ts <= safety_log[i + 1].ts

\* C19: no step of a get_safety_status call changes the log, the home
\* position, the monitoring flag, the guard flag or the vehicle mode.
C19_StatusReadOnly ==
  [][\A t \in Fg :
       (op[t] = "get_safety_status" \/ op'[t] = "get_safety_status")
         => UNCHANGED <<safety_log, home, monitoring, emergency_triggered,
                        mode>>]_vars

\* C20: no step of a check_altitude, check_battery, check_tilt or
\* check_geofence call changes the log, the home position, the monitoring
\* flag or the guard flag.
C20_ChecksMutateNothing ==
  [][\A t \in Fg :
       (op[t] \in CheckNames \/ op'[t] \in CheckNames)
         => UNCHANGED <<safety_log, home, monitoring, emergency_triggered>>]_vars

\* C21: without a vehicle no step of set_home_position changes the home
\* position; with a vehicle the call leaves the vehicle's current latitude
\* and longitude as home.
C21_SetHomeNeedsVehicle ==
  /\ [](\A t \in Fg :
          (Returned(t, "set_home_position") /\ vehicle)
            => (home_lat = Some(tel.lat) /\ home_lon = Some(tel.lon)))
  /\ [][\A t \in Fg :
          (~vehicle /\ (op[t] = "set_home_position"
                          \/ op'[t] = "set_home_position"))
            => UNCHANGED <<home_lat, home_lon>>]_vars

\* C22: check_geofence passes and logs nothing whenever the geofence is
\* disabled or home is unset; otherwise, with a vehicle, it fails exactly
\* when the distance from home to the current position is greater than
\* geofence_radius.
C22_GeofenceCheck ==
  \A t \in Fg :
    Returned(t, "check_geofence")
      => /\ (~geofence_enabled \/ home_lat = None \/ home_lon = None)
              => (ret[t] = "True" /\ logged[t] = <<>>)
         /\ (vehicle /\ geofence_enabled /\ home_lat # None /\ home_lon # None)
              => /\ ret[t] \in {"True", "False"}
                 /\ ret[t] = "False" <=>
                      calculate_distance(home_lat[1], home_lon[1], tel.lat, tel.lon)
                        > geofence_radius * 1000
                 /\ ret[t] = "True" => logged[t] = <<>>

C22_Witness ==
  \E t \in Fg :
    /\ Returned(t, "check_geofence") /\ ret[t] = "False"
    /\ vehicle /\ geofence_enabled /\ ~HomeUnset
    /\ Len(logged[t]) = 1 /\ logged[t][1].inv = "Geofence"

\* C23: without a vehicle nothing is ever appended to the log or waiting to
\* be appended, no command is issued and the flight mode stays as it was,
\* is_safe and each of the four checks return True, and handle_emergency
\* returns before its dispatch.
C23_SimulationMode ==
  ~vehicle
    => /\ safety_log = <<>>
       /\ \A l \in Loops : lpend[l] = <<>> /\ tickLog[l] = <<>>
       /\ mode = "GUIDED"
       /\ \A t \in Fg :
            /\ pend[t] = <<>> /\ cmds[t] = <<>>
            /\ (pc[t] = Done /\ op[t] \in CheckNames \cup {"is_safe"})
                 => (ret[t] = "True" /\ err[t] = "none")
            /\ (pc[t] = Done /\ op[t] = "handle_emergency")
                 => ret[t] \in {"simulation", "guarded"}

C23_Witness ==
  \E t \in Fg :
    /\ ~vehicle /\ AltitudeFails(tel) /\ BatteryFails(tel)
    /\ Returned(t, "is_safe") /\ ret[t] = "True"
    /\ emergency_triggered
    /\ \E l \in Loops : lpc[l] = "sleep"

\* C24: a handle_emergency call that starts while emergency_triggered is set
\* returns at once: it issues no command, logs nothing, and leaves the flight
\* mode, the safety log and emergency_triggered as they were.
C24_GuardedCallIsNoOp ==
  [][\A t \in Fg :
       (pc[t] = Idle /\ pc'[t] # Idle /\ op'[t] = "handle_emergency"
          /\ emergency_triggered)
         => /\ pc'[t] = Done /\ ret'[t] = "guarded" /\ err'[t] = "none"
            /\ cmds'[t] = <<>> /\ logged'[t] = <<>> /\ pend'[t] = <<>>
            /\ UNCHANGED <<mode, safety_log, emergency_triggered>>]_vars

C24_Witness ==
  \E t, u \in Fg :
    /\ pc[t] = Done /\ op[t] = "handle_emergency" /\ ret[t] = "guarded"
    /\ cmds[t] = <<>>
    /\ vehicle /\ InHandler(u) /\ emergency_triggered

StatusFields ==
  {"safe", "mode", "altitude", "battery", "tilt_pitch", "tilt_roll",
   "distance_from_home", "warnings"}

\* C26: the dictionary a get_safety_status call returns has exactly the
\* fields safe, mode, altitude, battery, tilt_pitch, tilt_roll,
\* distance_from_home and warnings, with or without a vehicle, and its
\* warnings is the length of the log.
C26_StatusFields ==
  \A t \in Fg :
    Returned(t, "get_safety_status")
      => /\ report[t] # <<>>
         /\ DOMAIN report[t][1] = StatusFields
         /\ report[t][1].warnings = Len(safety_log)

ValidThresholds ==
  max_altitude > 0 /\ min_battery > 0 /\ max_tilt_angle > 0 /\ geofence_radius > 0

\* C27: every threshold of a constructed monitor is positive, so monitoring
\* is never running on a threshold that is zero or negative.
C27_ThresholdsValid == monitoring => ValidThresholds

\* C28: a handle_emergency call in which the vehicle rejected the corrective
\* command has appended to the log an entry for that failure, beyond the
\* entries of the failing checks.
C28_CommandFailureLogged ==
  \A t \in Fg :
    (CallEnded(t) /\ exc[t] = "command")
      => \E i \in 1..Len(logged[t]) : logged[t][i].inv \notin Invariants

\* the file read again: each line after the header and the blank line as a
\* pair of its timestamp and its text
ReadBack(f) ==
  [i \in 1..(Len(f) - 2) |-> <<f[i + 2].stamp, <<f[i + 2].inv, f[i + 2].nums>>>>]

\* the log as pairs of timestamp and message
Pairs(log) ==
  [i \in 1..Len(log) |-> <<Some(log[i].ts), <<log[i].inv, log[i].nums>>>>]

\* C29: the file save_log has written holds the header line, a blank line
\* and one line for each entry of the log, and read again it gives the
\* timestamps and messages of the log in order.
C29_ExportRoundTrip ==
  [][\A t \in Fg :
       (pc[t] = "sl_write" /\ pc'[t] = Done)
         => /\ Len(file') = 2 + Len(safety_log)
            /\ file'[1] = HeaderLine /\ file'[2] = BlankLine
            /\ ReadBack(file') = Pairs(safety_log)]_vars

\* C30: a stop_monitoring call that begins while monitoring is false, and
\* the join every stop_monitoring call ends with, raise no error, start no
\* loop thread and leave monitoring false.
C30_StopWhenStopped ==
  [][\A t \in Fg :
       /\ (pc[t] = Idle /\ op'[t] = "stop_monitoring" /\ ~monitoring)
            => /\ pc'[t] = "st_join" /\ err'[t] = "none"
               /\ ~monitoring' /\ Started = {}
               /\ UNCHANGED <<lpc, monitor_thread, safety_log, mode,
                              emergency_triggered>>
       /\ (pc[t] = "st_join" /\ pc'[t] # "st_join")
            => /\ pc'[t] = Done /\ ret'[t] = "stopped" /\ err'[t] = "none"
               /\ ~monitoring' /\ Started = {}
               /\ UNCHANGED <<lpc, monitor_thread>>]_vars

C30_Witness ==
  \E t \in Fg :
    /\ pc[t] = Done /\ op[t] = "stop_monitoring" /\ ret[t] = "stopped"
    /\ err[t] = "none"
    /\ monitor_thread = NoThread /\ ~monitoring
    /\ \A l \in Loops : ~Alive(l)

\* C31: the value calculate_distance returns is 0 when both coordinates are
\* the same, and is the value it gives for the two coordinates exchanged.
C31_DistanceZeroAndSymmetric ==
  \A t \in Fg :
    Returned(t, "calculate_distance")
      => LET r == report[t][1] IN
           /\ (r.from = r.to) => (r.distance = 0)
           /\ r.distance =
                calculate_distance(r.to[1], r.to[2], r.from[1], r.from[2])

C31_Witness ==
  \E t, u \in Fg :
    /\ Returned(t, "calculate_distance") /\ Returned(u, "calculate_distance")
    /\ report[t][1].from = report[t][1].to /\ report[t][1].from[1] # 0
    /\ report[u][1].from[1] # report[u][1].to[1]
    /\ report[u][1].from[2] # report[u][1].to[2]
    /\ report[u][1].distance > 0

\* C32: at most one loop thread is alive in every state.
C32_OneLoopAlive == Cardinality({l \in Loops : Alive(l)}) <= 1

\* C33: with a vehicle, monitoring true and a loop thread running, an
\* invariant that is violated and stays so leads to a log entry for that
\* invariant, unless monitoring is set to false.
C33_ViolationDetected ==
  \A inv \in Invariants :
    (monitoring /\ vehicle /\ Fails(inv, tel) /\ \E l \in Loops : Alive(l))
      ~> (~monitoring
            \/ \E i \in 1..Len(safety_log) : safety_log[i].inv = inv)

\* C34: with a vehicle and home set, the distance_from_home of a status
\* report is calculate_distance from home to the vehicle's position, and is
\* beyond the geofence radius whenever the geofence check fails there.
C34_StatusDistance ==
  \A t \in Fg :
    (Returned(t, "get_safety_status") /\ vehicle /\ ~HomeUnset)
      => /\ report[t][1].distance_from_home =
              calculate_distance(home_lat[1], home_lon[1], tel.lat, tel.lon)
         /\ GeofenceFails(tel)
              => report[t][1].distance_from_home > geofence_radius * 1000

\* C35: a status report with a vehicle whose safe field is true carries an
\* altitude, a battery level and tilt angles within the limits, and its
\* warnings field is a length the log had during the call.
C35_StatusOneSnapshot ==
  \A t \in Fg :
    (Returned(t, "get_safety_status") /\ vehicle)
      => LET r == report[t][1] IN
           /\ r.safe => /\ r.altitude <= max_altitude
                        /\ r.battery >= min_battery
                        /\ Abs(r.tilt_pitch) <= max_tilt_angle
                        /\ Abs(r.tilt_roll) <= max_tilt_angle
           /\ r.warnings <= Len(safety_log)

\* the first invariant in the order of evaluation that the snapshot violates
FirstViolated(t) ==
  CheckOrder[Min({i \in 1..Len(CheckOrder) : Fails(CheckOrder[i], t)})]

\* C36: an is_safe call that has returned appended at most one entry: none
\* when no invariant is violated, otherwise the entry of the first violated
\* invariant in the order altitude, battery, tilt, geofence.
C36_IsSafeLogsFirstOnly ==
  \A t \in Fg :
    (Returned(t, "is_safe") /\ vehicle)
      => /\ Len(logged[t]) <= 1
         /\ Violated(tel) = {} => logged[t] = <<>>
         /\ Violated(tel) # {} => logged[t] = <<EntryOf(FirstViolated(tel), tel)>>

C36_Witness ==
  \E t \in Fg :
    /\ Returned(t, "is_safe") /\ vehicle /\ ret[t] = "False"
    /\ ~AltitudeFails(tel) /\ BatteryFails(tel) /\ TiltFails(tel)
    /\ Len(logged[t]) = 1 /\ logged[t][1].inv = "Battery"

\* C37: no step changes a threshold or the geofence switch, and only the
\* steps of a set_home_position call change home_lat or home_lon.
C37_ConfigAndHomeFrame ==
  [][/\ UNCHANGED <<max_altitude, min_battery, max_tilt_angle, geofence_enabled,
                    geofence_radius>>
     /\ (\A t \in Fg : op[t] # "set_home_position" /\ op'[t] # "set_home_position")
          => UNCHANGED <<home_lat, home_lon>>]_vars

C37_Witness ==
  \E t \in Fg :
    /\ Returned(t, "handle_emergency") /\ ret[t] = "handled"
    /\ vehicle /\ home_lat = Some(tel.lat) /\ home_lon = Some(tel.lon)
    /\ mode # "GUIDED" /\ safety_log # <<>>
    /\ \E l \in Loops : Alive(l)
=============================================================================
